---- MODULE Spec2Model ----
(***************************************************************************)
(* ConfigInstance of extension-dl/src/config.ts: an in-memory mirror of    *)
(* the persisted "config" entry with three listener registries (per key,   *)
(* any change, conditional on the batch of changed keys) and two ways of   *)
(* synchronising with the outside (chrome.storage.onChanged, and a polled  *)
(* fetch of chzzkext://loadconfig).                                        *)
(*                                                                         *)
(* JavaScript runs every handler to completion, so each handler is one     *)
(* action.  The only suspension points are the storage read started by the *)
(* constructor and the fetch started by each timer tick; each is split in  *)
(* the step that starts it and the step that resumes after it.             *)
(*                                                                         *)
(* Objects have identity: `config` holds a reference and `heap` the        *)
(* contents of the objects the store can reach (its current map and the    *)
(* module-level defaultConfig).  A call of a registered function is       *)
(* recorded in `calls` with its arguments and with the map a get() issued  *)
(* from inside the callee would read; most registered functions leave the  *)
(* store alone, four of them subscribe or unsubscribe while being called.  *)
(* save() only hands the map to chrome.storage and changes nothing of the  *)
(* store; it is not modelled.                                              *)
(***************************************************************************)
EXTENDS Naturals, Sequences, FiniteSets, TLC

\* ------------------------------------------------------------------ bounds
\* the most listeners registered at once, over the three registries
MaxListeners == 3
\* the most fetches in flight at once
MaxInflight == 2

\* ------------------------------------------------------------------ values
\* ConfigData = string | boolean | number, as (typeof, literal); `undefined`
\* is the value of a missing property and of a missing argument.
Undefined == [type |-> "undefined", val |-> "undefined"]
False == [type |-> "boolean", val |-> "false"]
True == [type |-> "boolean", val |-> "true"]
Zero == [type |-> "number", val |-> "0"]
EmptyString == [type |-> "string", val |-> ""]
ConfigData == {False, True, Zero, EmptyString}
Booleans == {False, True}

typeof(v) == v.type

\* the keys of defaultConfig
Keys == {"vodDownload", "clipDownload"}

\* ConfigObject = { [key: string]: ConfigData }, a finite map
ConfigObject(V) == UNION {[D -> V] : D \in SUBSET Keys}
ConfigObjects == ConfigObject(ConfigData)
BooleanObjects == ConfigObject(Booleans)

EmptyObject == [k \in {} |-> Undefined]

defaultConfig == [vodDownload |-> False, clipDownload |-> True]

\* obj[key]: a missing property reads as undefined
Prop(obj, key) == IF key \in DOMAIN obj THEN obj[key] ELSE Undefined

\* obj[key] = value
PutProp(obj, key, value) ==
  [k \in DOMAIN obj \cup {key} |-> IF k = key THEN value ELSE obj[k]]

\* a !== b on primitives (NaN is not among the values)
StrictNotEqual(a, b) == a # b

\* Object.keys(obj): the own keys in property order.  A map here does not
\* record the order its properties were created in, so every order is one
\* the program can produce.
ObjectKeys(obj) ==
  {s \in [1..Cardinality(DOMAIN obj) -> DOMAIN obj] :
     \A i, j \in DOMAIN s : i # j => s[i] # s[j]}

Range(s) == {s[i] : i \in DOMAIN s}

\* Array.from(new Set(arr)): the first occurrence of each element, in order
RECURSIVE ArrayFromSet(_)
ArrayFromSet(arr) ==
  IF arr = <<>> THEN <<>>
  ELSE LET front == ArrayFromSet(SubSeq(arr, 1, Len(arr) - 1))
           x == arr[Len(arr)]
       IN IF x \in Range(front) THEN front ELSE Append(front, x)

\* ------------------------------------------------------------------ references
Null == "null"
\* the object literal of the field initialiser, the module-level default
\* object, an object a caller passed to load(), the object last deserialised
\* from storage or from a fetch, and the object syncConfig also stores in
\* window.chzzkExt.config
Refs == {"initial", "defaultConfig", "loaded", "snapshot", "windowConfig"}

\* the registered functions, by identity
Listeners == {"onKeyA", "onKeyB"}
AnyListeners == {"onAnyA", "onAnyB"}
\* CoditionListener: a predicate over the changed keys
Conditions == {"vodChanged", "clipChanged"}
ConditionTargets == {"onCondA", "onCondB"}
\* listeners that call back into the store while they are being notified
ReentrantListeners == {"unsubscribeA", "subscribeB"}
ReentrantAnyListeners == {"unsubscribeAnyA", "subscribeAnyB"}

\* c(changes) for the registered predicates
ConditionHolds(c, changes) ==
  IF c = "vodChanged" THEN "vodDownload" \in Range(changes)
  ELSE "clipDownload" \in Range(changes)

VARIABLES
  chrome,              \* chrome.storage.local exists in this context
  seedPending,         \* the constructor's loadFromStorage has not resolved
  config,              \* this.config: a reference, or Null
  heap,                \* the contents of the objects the store can reach
  listeners,           \* this.listeners: key -> array, absent until added
  anyListeners,        \* this.anyListeners
  conditionListeners,  \* this.conditionListeners: array of <<c, l>>
  timers,              \* the polling intervals that have been started
  remote,              \* what chzzkext://loadconfig answers now
  inflight,            \* fetches started and not yet resumed, oldest first
  calls,               \* the calls out of the store made by the last handler
  last                 \* the last handler run, its arguments and its result

vars == <<chrome, seedPending, config, heap, listeners, anyListeners,
          conditionListeners, timers, remote, inflight, calls, last>>

\* ------------------------------------------------------------------ the store
\* The instance as a value, so that one handler can be written as the
\* composition of the methods it calls.
This ==
  [config |-> config, heap |-> heap, listeners |-> listeners,
   anyListeners |-> anyListeners, conditionListeners |-> conditionListeners,
   calls |-> <<>>, diffs |-> <<>>, raised |-> FALSE]

\* what this.config is when it is null: no object, and no map equals it
NoObject == [null |-> Undefined]

\* the map a get() reads through this.config
View(s) == IF s.config = Null THEN NoObject ELSE s.heap[s.config]

\* an object the store no longer references is out of its reach
Reach(s) ==
  [s EXCEPT !.heap = [r \in {"defaultConfig"} \cup ({s.config} \ {Null})
                        |-> s.heap[r]]]

\* a new object `obj` at reference r
New(s, r, obj) ==
  [s EXCEPT !.heap = [x \in DOMAIN s.heap \cup {r} |->
                        IF x = r THEN obj ELSE s.heap[x]]]

\* an uncaught TypeError: the handler stops where it is
Throw(s) == [s EXCEPT !.raised = TRUE]

Call(kind, fn, key, data, changes, s) ==
  [kind |-> kind, fn |-> fn, key |-> key, data |-> data,
   changes |-> changes, view |-> View(s)]

\* get with `this.config[key] || defaultValue` for the test of undefined
getOrDefault(s, key, defaultValue) ==
  IF s.config = Null
    THEN defaultValue
    ELSE IF Prop(s.heap[s.config], key) \in {Undefined, False, Zero, EmptyString}
           THEN defaultValue
           ELSE Prop(s.heap[s.config], key)

\* config.ts:20-28; reading a property of null throws, and the catch
\* returns defaultValue
get(s, key, defaultValue) ==
  IF s.config = Null
    THEN defaultValue
    ELSE IF typeof(Prop(s.heap[s.config], key)) = "undefined"
           THEN defaultValue
           ELSE Prop(s.heap[s.config], key)

\* config.ts:60-65
addListener(s, key, listener) ==
  LET made == IF key \notin DOMAIN s.listeners
                THEN [k \in DOMAIN s.listeners \cup {key} |->
                        IF k = key THEN <<>> ELSE s.listeners[k]]
                ELSE s.listeners
  IN [s EXCEPT !.listeners = [made EXCEPT ![key] = Append(@, listener)]]

\* config.ts:66-71
removeListener(s, key, listener) ==
  IF key \notin DOMAIN s.listeners
    THEN s
    ELSE [s EXCEPT !.listeners[key] = SelectSeq(@, LAMBDA l : l # listener)]

\* config.ts:81-83
addAnyListener(s, listener) ==
  [s EXCEPT !.anyListeners = Append(@, listener)]

\* config.ts:84-86
removeAnyListener(s, listener) ==
  [s EXCEPT !.anyListeners = SelectSeq(@, LAMBDA l : l # listener)]

\* config.ts:87-92
addConditionListener(s, condition, listener) ==
  [s EXCEPT !.conditionListeners = Append(@, <<condition, listener>>)]

\* config.ts:93-100
removeConditionListener(s, condition, listener) ==
  [s EXCEPT !.conditionListeners =
     SelectSeq(@, LAMBDA p : p[1] # condition /\ p[2] # listener)]

\* What the registered functions do when called.  onKeyA, onKeyB, onAnyA
\* and onAnyB leave the store alone; the other four call back into it:
\* unsubscribeA removes onKeyA from the key it is called for, subscribeB adds
\* onKeyB to it, unsubscribeAnyA removes onAnyA and subscribeAnyB adds onAnyB.
ListenerBody(s, fn, key) ==
  IF fn = "unsubscribeA" THEN removeListener(s, key, "onKeyA")
  ELSE IF fn = "subscribeB" THEN addListener(s, key, "onKeyB")
  ELSE s

AnyListenerBody(s, fn) ==
  IF fn = "unsubscribeAnyA" THEN removeAnyListener(s, "onAnyA")
  ELSE IF fn = "subscribeAnyB" THEN addAnyListener(s, "onAnyB")
  ELSE s

\* array.forEach((l) => l(key, newData)), config.ts:76: forEach visits the
\* elements the array object had when it was called.  removeListener
\* assigns a new array and addListener pushes past the end, so neither
\* changes what is visited.
RECURSIVE forEachListener(_, _, _, _, _)
forEachListener(s, array, i, key, newData) ==
  IF i > Len(array) THEN s
  ELSE LET called == [s EXCEPT !.calls =
                        Append(@, Call("listener", array[i], key, newData,
                                       <<>>, s))]
       IN forEachListener(ListenerBody(called, array[i], key), array, i + 1,
                          key, newData)

\* config.ts:72-77
emit(s, key, newData) ==
  IF key \notin DOMAIN s.listeners
    THEN s
    ELSE forEachListener(s, s.listeners[key], 1, key, newData)

\* this.anyListeners.forEach((l) => l()), config.ts:102
RECURSIVE forEachAnyListener(_, _, _)
forEachAnyListener(s, array, i) ==
  IF i > Len(array) THEN s
  ELSE LET called == [s EXCEPT !.calls =
                        Append(@, Call("anyListener", array[i], "", Undefined,
                                       <<>>, s))]
       IN forEachAnyListener(AnyListenerBody(called, array[i]), array, i + 1)

\* config.ts:101-103
emitAny(s) == forEachAnyListener(s, s.anyListeners, 1)

\* config.ts:104-110
RECURSIVE emitConditionFrom(_, _, _)
emitConditionFrom(s, changes, i) ==
  IF i > Len(s.conditionListeners) THEN s
  ELSE LET c == s.conditionListeners[i][1]
           l == s.conditionListeners[i][2]
           asked == [s EXCEPT !.calls =
                       Append(@, Call("condition", c, "", Undefined, changes, s))]
           told == IF ConditionHolds(c, changes)
                     THEN [asked EXCEPT !.calls =
                             Append(@, Call("conditionListener", l, "",
                                            Undefined, changes, s))]
                     ELSE asked
       IN emitConditionFrom(told, changes, i + 1)

emitCondition(s, changes) == emitConditionFrom(s, changes, 1)

\* set without its this.emit(key, value)
setWithoutEmit(s, key, value) ==
  IF s.config = Null
    THEN Throw(s)
    ELSE emitAny([s EXCEPT !.heap[s.config] = PutProp(@, key, value)])

\* config.ts:29-33; writing a property of null throws
set(s, key, value) ==
  IF s.config = Null
    THEN Throw(s)
    ELSE emitAny(emit([s EXCEPT !.heap[s.config] = PutProp(@, key, value)],
                      key, value))

\* load without its this.emitAny()
loadWithoutEmitAny(s, cfg) == Reach([s EXCEPT !.config = cfg])

\* config.ts:34-37
load(s, cfg) == emitAny(Reach([s EXCEPT !.config = cfg]))

\* config.ts:49-52, the callback of chrome.storage.local.get: result.config
\* is the stored object, or undefined when nothing is stored
loadFromStorageCallback(s, resultConfig) ==
  IF resultConfig = Undefined
    THEN Reach([s EXCEPT !.config = "defaultConfig"])
    ELSE Reach([New(s, "snapshot", resultConfig) EXCEPT !.config = "snapshot"])

\* config.ts:55-57: the reference itself, not a copy
loadAsT(s) == s.config

\* for (const key of diffs) this.emit(key, newConfig[key]), config.ts:137-139
RECURSIVE emitEach(_, _, _, _)
emitEach(s, diffs, newConfig, i) ==
  IF i > Len(diffs) THEN s
  ELSE emitEach(emit(s, diffs[i], Prop(newConfig, diffs[i])), diffs, newConfig, i + 1)

\* the diff over the keys of the new map only
onChangedDiffsOfNewKeys(newConfig, oldConfig, newKeys, oldKeys) ==
  SelectSeq(newKeys,
            LAMBDA key : StrictNotEqual(Prop(newConfig, key), Prop(oldConfig, key)))

\* config.ts:130-136: newKeys and oldKeys are Object.keys of the two maps
onChangedDiffs(newConfig, oldConfig, newKeys, oldKeys) ==
  SelectSeq(ArrayFromSet(newKeys \o oldKeys),
            LAMBDA key : StrictNotEqual(Prop(newConfig, key), Prop(oldConfig, key)))

\* the diff without its filter: every key of either map
syncConfigDiffsEveryKey(cfg, thisConfig, newKeys, oldKeys) ==
  ArrayFromSet(newKeys \o oldKeys)

\* config.ts:153-159
syncConfigDiffs(cfg, thisConfig, newKeys, oldKeys) ==
  SelectSeq(ArrayFromSet(newKeys \o oldKeys),
            LAMBDA key : StrictNotEqual(Prop(cfg, key), Prop(thisConfig, key)))

\* the diff of syncConfigBackground over the keys of the fetched map only
syncConfigBackgroundDiffsOfNewKeys(cfg, thisConfig, newKeys, oldKeys) ==
  SelectSeq(newKeys,
            LAMBDA key : StrictNotEqual(Prop(cfg, key), Prop(thisConfig, key)))

\* config.ts:174-180
syncConfigBackgroundDiffs(cfg, thisConfig, newKeys, oldKeys) ==
  SelectSeq(ArrayFromSet(newKeys \o oldKeys),
            LAMBDA key : StrictNotEqual(Prop(cfg, key), Prop(thisConfig, key)))

\* the onChanged listener with emitCondition before emitAny
onChangedConditionFirst(s, changes, newKeys, oldKeys) ==
  IF "config" \notin DOMAIN changes THEN s
  ELSE IF changes["config"] = Undefined \/ s.config = Null THEN Throw(s)
  ELSE LET newConfig == changes["config"]
           oldConfig == s.heap[s.config]
           diffs == onChangedDiffs(newConfig, oldConfig, newKeys, oldKeys)
           emitted == emitEach([s EXCEPT !.diffs = diffs], diffs, newConfig, 1)
           replaced == Reach([New(emitted, "snapshot", newConfig)
                                EXCEPT !.config = "snapshot"])
       IN emitAny(emitCondition(replaced, diffs))

\* config.ts:124-145, the chrome.storage.onChanged listener.  `changes` maps
\* each changed storage key to its newValue, undefined when the entry was
\* removed; Object.keys of undefined or null throws.
onChanged(s, changes, newKeys, oldKeys) ==
  IF "config" \notin DOMAIN changes THEN s
  ELSE IF changes["config"] = Undefined \/ s.config = Null THEN Throw(s)
  ELSE LET newConfig == changes["config"]
           oldConfig == s.heap[s.config]
           diffs == onChangedDiffs(newConfig, oldConfig, newKeys, oldKeys)
           emitted == emitEach([s EXCEPT !.diffs = diffs], diffs, newConfig, 1)
           replaced == Reach([New(emitted, "snapshot", newConfig)
                                EXCEPT !.config = "snapshot"])
       IN emitCondition(emitAny(replaced), diffs)

\* the callback of syncConfig without `if (diffs.length == 0) return`
syncConfigResumeAlways(s, cfg, newKeys, oldKeys) ==
  IF s.config = Null THEN Throw(s)
  ELSE LET diffs == syncConfigDiffs(cfg, s.heap[s.config], newKeys, oldKeys)
           asked == emitCondition([s EXCEPT !.diffs = diffs], diffs)
           loaded == load(New(asked, "windowConfig", cfg), "windowConfig")
       IN [loaded EXCEPT !.calls =
             Append(@, Call("dispatchEvent", "chzzkExtConfig", "",
                            Undefined, <<>>, loaded))]

\* config.ts:150-165, the timer callback of syncConfig after its await;
\* cfg is the object res.json() made
syncConfigResume(s, cfg, newKeys, oldKeys) ==
  IF s.config = Null THEN Throw(s)
  ELSE LET diffs == syncConfigDiffs(cfg, s.heap[s.config], newKeys, oldKeys)
           asked == emitCondition([s EXCEPT !.diffs = diffs], diffs)
           loaded == load(New(asked, "windowConfig", cfg), "windowConfig")
       IN IF Len(diffs) = 0 THEN [s EXCEPT !.diffs = diffs]
          ELSE [loaded EXCEPT !.calls =
                  Append(@, Call("dispatchEvent", "chzzkExtConfig", "",
                                 Undefined, <<>>, loaded))]

\* the callback of syncConfigBackground with load before emitCondition
syncConfigBackgroundResumeLoadFirst(s, cfg, newKeys, oldKeys) ==
  IF s.config = Null THEN Throw(s)
  ELSE LET diffs == syncConfigBackgroundDiffs(cfg, s.heap[s.config],
                                              newKeys, oldKeys)
           loaded == load(New([s EXCEPT !.diffs = diffs], "snapshot", cfg),
                          "snapshot")
           asked == emitCondition(loaded, diffs)
       IN IF Len(diffs) = 0 THEN [s EXCEPT !.diffs = diffs]
          ELSE [asked EXCEPT !.calls =
                  Append(@, Call("main", "main", "", Undefined, <<>>, asked))]

\* config.ts:171-185, the timer callback of syncConfigBackground after its
\* await
syncConfigBackgroundResume(s, cfg, newKeys, oldKeys) ==
  IF s.config = Null THEN Throw(s)
  ELSE LET diffs == syncConfigBackgroundDiffs(cfg, s.heap[s.config],
                                              newKeys, oldKeys)
           asked == emitCondition([s EXCEPT !.diffs = diffs], diffs)
           loaded == load(New(asked, "snapshot", cfg), "snapshot")
       IN IF Len(diffs) = 0 THEN [s EXCEPT !.diffs = diffs]
          ELSE [loaded EXCEPT !.calls =
                  Append(@, Call("main", "main", "", Undefined, <<>>, loaded))]

\* ------------------------------------------------------------------ actions
\* what a handler leaves in the instance
Commit(s) ==
  /\ config' = s.config
  /\ heap' = s.heap
  /\ listeners' = s.listeners
  /\ anyListeners' = s.anyListeners
  /\ conditionListeners' = s.conditionListeners
  /\ calls' = s.calls

\* config.ts:112-123 and the field initialisers of lines 17, 59, 80: the
\* instance as `new ConfigInstance()` leaves it.  With chrome.storage.local
\* the constructor has started loadFromStorage and subscribed to onChanged;
\* without it the constructor has returned early.
Constructed(hasChrome) ==
  /\ chrome = hasChrome
  /\ seedPending = hasChrome
  /\ config = "initial"
  /\ heap = [r \in {"initial", "defaultConfig"} |->
               IF r = "initial" THEN EmptyObject ELSE defaultConfig]
  /\ listeners = [k \in {} |-> <<>>]
  /\ anyListeners = <<>>
  /\ conditionListeners = <<>>
  /\ timers = {}
  /\ inflight = <<>>
  /\ calls = <<>>
  /\ last = [op |-> "constructor"]

\* get(key, defaultValue); get(key) passes undefined
Get(key, defaultValue) ==
  /\ Commit(This)
  /\ last' = [op |-> "get", key |-> key, defaultValue |-> defaultValue,
              ret |-> get(This, key, defaultValue)]
  /\ UNCHANGED <<chrome, seedPending, timers, remote, inflight>>

Set(key, value) ==
  LET s == set(This, key, value)
  IN /\ Commit(s)
     /\ last' = [op |-> "set", key |-> key, value |-> value, raised |-> s.raised]
     /\ UNCHANGED <<chrome, seedPending, timers, remote, inflight>>

\* load(cfg) with an object of the caller's
Load(cfg) ==
  /\ Commit(load(New(This, "loaded", cfg), "loaded"))
  /\ last' = [op |-> "load", cfg |-> cfg]
  /\ UNCHANGED <<chrome, seedPending, timers, remote, inflight>>

\* load(null): the type forbids it, the code does not
LoadNull ==
  /\ Commit(load(This, Null))
  /\ last' = [op |-> "load", cfg |-> NoObject]
  /\ UNCHANGED <<chrome, seedPending, timers, remote, inflight>>

\* the callback of the constructor's loadFromStorage
LoadFromStorageCallback(resultConfig) ==
  /\ seedPending
  /\ seedPending' = FALSE
  /\ Commit(loadFromStorageCallback(This, resultConfig))
  /\ last' = [op |-> "loadFromStorage", result |-> resultConfig]
  /\ UNCHANGED <<chrome, timers, remote, inflight>>

\* loadAsT(): the caller receives a reference
LoadAsT ==
  /\ Commit(This)
  /\ last' = [op |-> "loadAsT", ret |-> loadAsT(This)]
  /\ UNCHANGED <<chrome, seedPending, timers, remote, inflight>>

\* the listeners registered, over the three registries
Registered(s) ==
  LET RECURSIVE keyed(_)
      keyed(ks) == IF ks = {} THEN 0
                   ELSE LET k == CHOOSE x \in ks : TRUE
                        IN Len(s.listeners[k]) + keyed(ks \ {k})
  IN keyed(DOMAIN s.listeners) + Len(s.anyListeners) + Len(s.conditionListeners)

AddListener(key, listener) ==
  /\ Registered(This) < MaxListeners
  /\ Commit(addListener(This, key, listener))
  /\ last' = [op |-> "addListener", key |-> key, listener |-> listener]
  /\ UNCHANGED <<chrome, seedPending, timers, remote, inflight>>

RemoveListener(key, listener) ==
  /\ Commit(removeListener(This, key, listener))
  /\ last' = [op |-> "removeListener", key |-> key, listener |-> listener]
  /\ UNCHANGED <<chrome, seedPending, timers, remote, inflight>>

AddAnyListener(listener) ==
  /\ Registered(This) < MaxListeners
  /\ Commit(addAnyListener(This, listener))
  /\ last' = [op |-> "addAnyListener", listener |-> listener]
  /\ UNCHANGED <<chrome, seedPending, timers, remote, inflight>>

RemoveAnyListener(listener) ==
  /\ Commit(removeAnyListener(This, listener))
  /\ last' = [op |-> "removeAnyListener", listener |-> listener]
  /\ UNCHANGED <<chrome, seedPending, timers, remote, inflight>>

AddConditionListener(condition, listener) ==
  /\ Registered(This) < MaxListeners
  /\ Commit(addConditionListener(This, condition, listener))
  /\ last' = [op |-> "addConditionListener", condition |-> condition,
              listener |-> listener]
  /\ UNCHANGED <<chrome, seedPending, timers, remote, inflight>>

RemoveConditionListener(condition, listener) ==
  /\ Commit(removeConditionListener(This, condition, listener))
  /\ last' = [op |-> "removeConditionListener", condition |-> condition,
              listener |-> listener]
  /\ UNCHANGED <<chrome, seedPending, timers, remote, inflight>>

\* the property orders Object.keys can give for this.config
OldKeys == IF config = Null THEN {<<>>} ELSE ObjectKeys(heap[config])
NewKeys(cfg) == IF cfg = Undefined THEN {<<>>} ELSE ObjectKeys(cfg)

\* a chrome.storage.onChanged event; the listener exists only when the
\* constructor found chrome.storage.local
OnChanged(changes) ==
  /\ chrome
  /\ \E newKeys \in NewKeys(Prop(changes, "config")), oldKeys \in OldKeys :
       LET s == onChanged(This, changes, newKeys, oldKeys)
       IN /\ Commit(s)
          /\ last' = [op |-> "onChanged", changes |-> changes,
                      diffs |-> s.diffs, raised |-> s.raised]
  /\ UNCHANGED <<chrome, seedPending, timers, remote, inflight>>

\* syncConfig() / syncConfigBackground(main): setInterval.  A second
\* interval of the same kind only ticks more often, so one is kept.  Polling
\* is what a context without chrome.storage synchronises by, so it is
\* started only where the constructor returned early.
StartTimer(t) ==
  /\ ~chrome
  /\ t \notin timers
  /\ timers' = timers \cup {t}
  /\ Commit(This)
  /\ last' = [op |-> t]
  /\ UNCHANGED <<chrome, seedPending, remote, inflight>>

\* a tick of an interval sends the fetch, which is answered with what the
\* endpoint holds; the callback is suspended at its await (config.ts:150,171)
Tick(t) ==
  /\ t \in timers
  /\ Len(inflight) < MaxInflight
  /\ inflight' = Append(inflight, [timer |-> t, body |-> remote])
  /\ Commit(This)
  /\ last' = [op |-> "tick", timer |-> t]
  /\ UNCHANGED <<chrome, seedPending, timers, remote>>

Without(seq, i) == SubSeq(seq, 1, i - 1) \o SubSeq(seq, i + 1, Len(seq))

\* a fetch completes, in any order, and its callback resumes
Resume(i) ==
  /\ i \in DOMAIN inflight
  /\ inflight' = Without(inflight, i)
  /\ \E newKeys \in ObjectKeys(inflight[i].body), oldKeys \in OldKeys :
       LET s == IF inflight[i].timer = "syncConfig"
                  THEN syncConfigResume(This, inflight[i].body, newKeys, oldKeys)
                  ELSE syncConfigBackgroundResume(This, inflight[i].body,
                                                  newKeys, oldKeys)
       IN /\ Commit(s)
          /\ last' = [op |-> "resume", timer |-> inflight[i].timer,
                      cfg |-> inflight[i].body, oldest |-> i = 1,
                      diffs |-> s.diffs, raised |-> s.raised]
  /\ UNCHANGED <<chrome, seedPending, timers, remote>>

\* a failed fetch that also clears its interval
FetchFailClearsInterval(i) ==
  /\ i \in DOMAIN inflight
  /\ inflight' = Without(inflight, i)
  /\ timers' = timers \ {inflight[i].timer}
  /\ Commit(This)
  /\ last' = [op |-> "fetchFail", timer |-> inflight[i].timer]
  /\ UNCHANGED <<chrome, seedPending, remote>>

\* a fetch is rejected, or its body is not JSON: the await throws and the
\* rest of the callback does not run
FetchFail(i) ==
  /\ i \in DOMAIN inflight
  /\ inflight' = Without(inflight, i)
  /\ Commit(This)
  /\ last' = [op |-> "fetchFail", timer |-> inflight[i].timer]
  /\ UNCHANGED <<chrome, seedPending, timers, remote>>

\* the other side changes what the endpoint answers
RemoteChange(cfg) ==
  /\ cfg # remote
  /\ remote' = cfg
  /\ Commit(This)
  /\ last' = [op |-> "remoteChange"]
  /\ UNCHANGED <<chrome, seedPending, timers, inflight>>

\* ------------------------------------------------------------------ specifications
\* The local interface: set, load and the six registry mutators, from the
\* constructed instance.
Init == \E hasChrome \in BOOLEAN : Constructed(hasChrome) /\ remote = defaultConfig

Next ==
  \/ \E key \in Keys, value \in Booleans : Set(key, value)
  \/ LoadNull
  \/ LoadFromStorageCallback(Undefined)
  \/ \E key \in Keys, listener \in Listeners : AddListener(key, listener)
  \/ \E key \in Keys, listener \in Listeners : RemoveListener(key, listener)
  \/ \E listener \in AnyListeners : AddAnyListener(listener)
  \/ \E listener \in AnyListeners : RemoveAnyListener(listener)
  \/ \E condition \in Conditions, listener \in ConditionTargets :
       AddConditionListener(condition, listener)
  \/ \E condition \in Conditions, listener \in ConditionTargets :
       RemoveConditionListener(condition, listener)

Spec == Init /\ [][Next]_vars

\* Reading and writing the map, over every value type, with no listener
\* registered.
NextRead ==
  \/ \E key \in Keys, defaultValue \in ConfigData \cup {Undefined} :
       Get(key, defaultValue)
  \/ \E key \in Keys, value \in ConfigData : Set(key, value)
  \/ \E cfg \in ConfigObjects : Load(cfg)
  \/ LoadNull
  \/ LoadAsT
  \/ \E resultConfig \in BooleanObjects \cup {Undefined} :
       LoadFromStorageCallback(resultConfig)

SpecRead == Init /\ [][NextRead]_vars

\* The snapshots the outside produces: of storage, and of the endpoint
Snapshots ==
  {EmptyObject, defaultConfig,
   [vodDownload |-> True, clipDownload |-> False],
   [vodDownload |-> True]}

\* the `changes` of an onChanged event: of another entry, or of config
\* (written, or removed)
Changes ==
  {[k \in {"other"} |-> Undefined]}
    \cup {[k \in {"config"} |-> c] : c \in Snapshots \cup {Undefined}}

\* The registries the synchronisation handlers are run against: none
\* registered; two listeners of one key, one of the other, two any-listeners
\* and a conditional listener per key; a listener registered twice.
SyncRegistries ==
  {[listeners |-> [k \in {} |-> <<>>], anyListeners |-> <<>>,
    conditionListeners |-> <<>>],
   [listeners |-> [vodDownload |-> <<"onKeyA", "onKeyB">>,
                   clipDownload |-> <<"onKeyA">>],
    anyListeners |-> <<"onAnyA", "onAnyB">>,
    conditionListeners |-> << <<"vodChanged", "onCondA">>,
                              <<"clipChanged", "onCondB">> >>],
   [listeners |-> [clipDownload |-> <<"onKeyB", "onKeyB">>],
    anyListeners |-> <<"onAnyA">>,
    conditionListeners |-> << <<"clipChanged", "onCondA">>,
                              <<"clipChanged", "onCondA">> >>]}

\* Synchronisation: the instance after construction and after the listeners
\* of one of SyncRegistries have been added, with one local write,
\* set("vodDownload", true), possible between the events.
InitSync ==
  \E hasChrome \in BOOLEAN, registry \in SyncRegistries :
    /\ chrome = hasChrome
    /\ seedPending = hasChrome
    /\ config = "initial"
    /\ heap = [r \in {"initial", "defaultConfig"} |->
                 IF r = "initial" THEN EmptyObject ELSE defaultConfig]
    /\ listeners = registry.listeners
    /\ anyListeners = registry.anyListeners
    /\ conditionListeners = registry.conditionListeners
    /\ timers = {}
    /\ remote = defaultConfig
    /\ inflight = <<>>
    /\ calls = <<>>
    /\ last = [op |-> "addListener"]

NextSync ==
  \/ \E resultConfig \in Snapshots \cup {Undefined} :
       LoadFromStorageCallback(resultConfig)
  \/ \E changes \in Changes : OnChanged(changes)
  \/ Set("vodDownload", True)
  \/ \E t \in {"syncConfig", "syncConfigBackground"} : StartTimer(t)
  \/ \E t \in {"syncConfig", "syncConfigBackground"} : Tick(t)
  \/ \E i \in 1..MaxInflight : Resume(i)
  \/ \E i \in 1..MaxInflight : FetchFail(i)
  \/ \E cfg \in Snapshots : RemoteChange(cfg)

SpecSync == InitSync /\ [][NextSync]_vars

\* ------------------------------------------------------------------ properties
\* the calls of one kind among the last handler's, in order
CallsOf(kind) == SelectSeq(calls, LAMBDA c : c.kind = kind)

\* array[key] of the per-key registry, empty when none was ever added
ListenersOf(key) == IF key \in DOMAIN listeners THEN listeners[key] ELSE <<>>

\* C1: after set(k, v) has returned, get(k) is v; the calls it made are one
\* call per registration of listeners[k], in order and with (k, v), followed
\* by one call per registration of anyListeners; no listener of another key,
\* no predicate and no conditional callback was called.
C1_SetNotifies ==
  (last.op = "set" /\ ~last.raised) =>
    /\ get(This, last.key, Undefined) = last.value
    /\ Len(calls) = Len(ListenersOf(last.key)) + Len(anyListeners)
    /\ \A i \in 1..Len(ListenersOf(last.key)) :
         /\ calls[i].kind = "listener"
         /\ calls[i].fn = ListenersOf(last.key)[i]
         /\ calls[i].key = last.key
         /\ calls[i].data = last.value
    /\ \A i \in 1..Len(anyListeners) :
         /\ calls[Len(ListenersOf(last.key)) + i].kind = "anyListener"
         /\ calls[Len(ListenersOf(last.key)) + i].fn = anyListeners[i]

\* a set whose key has a listener, beside a listener of the other key, an
\* any-listener and a conditional listener
C1_Witness ==
  /\ last.op = "set" /\ ~last.raised
  /\ ListenersOf(last.key) # <<>>
  /\ anyListeners # <<>>
  /\ \/ conditionListeners # <<>>
     \/ \E k \in Keys \ {last.key} : ListenersOf(k) # <<>>

\* C2: get(k, d) returns the stored value when k is in the map, whatever the
\* value, and d when it is not or when there is no map; get(k) is get(k,
\* undefined).
C2_GetReadsOrDefaults ==
  last.op = "get" =>
    last.ret = IF config # Null /\ last.key \in DOMAIN heap[config]
                 THEN heap[config][last.key]
                 ELSE last.defaultValue

\* a get of a stored false, 0 or "" with another default
C2_Witness ==
  /\ last.op = "get"
  /\ config # Null
  /\ last.key \in DOMAIN heap[config]
  /\ heap[config][last.key] \in {False, Zero, EmptyString}
  /\ last.defaultValue = True
  /\ last.ret = heap[config][last.key]

\* the ChangeBatch of two maps: the keys of either whose values differ, a
\* key of only one of them included
ChangedKeys(old, new) ==
  {k \in DOMAIN old \cup DOMAIN new : Prop(new, k) # Prop(old, k)}

\* the handler of label l went as far as computing its diff
Diffed(l) ==
  \/ l.op = "resume" /\ ~l.raised
  \/ l.op = "onChanged" /\ "config" \in DOMAIN l.changes /\ ~l.raised

\* the snapshot the handler of label l received
Received(l) == IF l.op = "onChanged" THEN l.changes["config"] ELSE l.cfg

\* C3: the diffs the onChanged handler, the syncConfig tick and the
\* syncConfigBackground tick compute are, each, exactly the keys of the old
\* or the new map whose values differ, every key once.
C3_DiffIsChangedKeys ==
  [][Diffed(last') =>
       /\ Range(last'.diffs) = ChangedKeys(View(This), Received(last'))
       /\ \A i, j \in DOMAIN last'.diffs :
            i # j => last'.diffs[i] # last'.diffs[j]]_vars

\* a syncConfigBackground tick whose snapshot dropped one key and kept the
\* value of the other
C3_Witness ==
  /\ last.op = "resume" /\ last.timer = "syncConfigBackground"
  /\ last.cfg = [vodDownload |-> True]
  /\ last.diffs = <<"clipDownload">>

\* C4: a tick whose snapshot equals the local map key by key calls nothing
\* (no listener, no predicate, no main, no event) and leaves this.config the
\* same object with the same contents.
C4_EmptyBatchTickIsSilent ==
  [][(last'.op = "resume" /\ ~last'.raised
        /\ ChangedKeys(View(This), last'.cfg) = {}) =>
       /\ calls' = <<>>
       /\ config' = config
       /\ heap' = heap]_vars

\* such a tick of syncConfig, with any-listeners and conditional listeners
\* registered
C4_Witness ==
  /\ last.op = "resume" /\ last.timer = "syncConfig"
  /\ last.diffs = <<>>
  /\ View(This) = last.cfg
  /\ anyListeners # <<>>
  /\ conditionListeners # <<>>

\* C5: in one onChanged notification every per-key listener call precedes
\* every any-listener call, which precedes every predicate and conditional
\* callback call; per-key listeners are called only for changed keys, with
\* the key's value in the new snapshot.
C5_EventOrder ==
  [][(last'.op = "onChanged" /\ Diffed(last')) =>
       /\ \A i, j \in DOMAIN calls' :
            /\ (calls'[i].kind = "listener" /\ calls'[j].kind # "listener")
                 => i < j
            /\ (calls'[i].kind = "anyListener"
                  /\ calls'[j].kind \in {"condition", "conditionListener"})
                 => i < j
       /\ \A i \in DOMAIN calls' :
            calls'[i].kind = "listener" =>
              /\ calls'[i].key \in ChangedKeys(View(This), Received(last'))
              /\ calls'[i].data = Prop(Received(last'), calls'[i].key)]_vars

\* a notification that called listeners of all three kinds
C5_Witness ==
  /\ last.op = "onChanged"
  /\ CallsOf("listener") # <<>>
  /\ CallsOf("anyListener") # <<>>
  /\ CallsOf("conditionListener") # <<>>

\* C6 as stated: on every synchronisation path the per-key listener calls
\* precede the any-listener calls, which precede the conditional callbacks.
C6_AnyBeforeConditionOnEveryPath ==
  Diffed(last) =>
    \A i, j \in DOMAIN calls :
      /\ (calls[i].kind = "listener" /\ calls[j].kind # "listener") => i < j
      /\ (calls[i].kind = "anyListener" /\ calls[j].kind = "conditionListener")
           => i < j

\* C6, amended: an onChanged notification calls the per-key listeners, then
\* the any-listeners, then the conditional callbacks; a tick of either
\* polling loop calls no per-key listener, and calls every predicate and
\* conditional callback before any any-listener.
C6_OrderPerPath ==
  /\ (last.op = "onChanged" /\ Diffed(last)) =>
       \A i, j \in DOMAIN calls :
         /\ (calls[i].kind = "listener" /\ calls[j].kind # "listener") => i < j
         /\ (calls[i].kind = "anyListener" /\ calls[j].kind = "conditionListener")
              => i < j
  /\ (last.op = "resume" /\ Diffed(last)) =>
       /\ CallsOf("listener") = <<>>
       /\ \A i, j \in DOMAIN calls :
            (calls[i].kind \in {"condition", "conditionListener"}
               /\ calls[j].kind = "anyListener") => i < j

\* a tick of syncConfigBackground that called any-listeners and conditional
\* callbacks
C6_Witness ==
  /\ last.op = "resume" /\ last.timer = "syncConfigBackground"
  /\ CallsOf("anyListener") # <<>>
  /\ CallsOf("conditionListener") # <<>>

\* C7: removeListener, removeAnyListener and removeConditionListener called
\* with a listener (a pair) that is not registered leave the three
\* registries as they were.
C7_RemoveUnregisteredIsNoOp ==
  [][(\/ /\ last'.op = "removeListener"
         /\ last'.listener \notin Range(ListenersOf(last'.key))
      \/ /\ last'.op = "removeAnyListener"
         /\ last'.listener \notin Range(anyListeners)
      \/ /\ last'.op = "removeConditionListener"
         /\ <<last'.condition, last'.listener>> \notin Range(conditionListeners))
     => /\ listeners' = listeners
        /\ anyListeners' = anyListeners
        /\ conditionListeners' = conditionListeners]_vars

\* the functions called in one role by the last handler, in order
Called(kind) == [i \in DOMAIN CallsOf(kind) |-> CallsOf(kind)[i].fn]

\* C8: the any-listeners are called once each by a set, once each by a
\* synchronisation cycle whose ChangeBatch is not empty, and not at all by a
\* cycle whose ChangeBatch is empty.
C8_AnyOncePerRealChange ==
  /\ (last.op = "set" /\ ~last.raised) => Called("anyListener") = anyListeners
  /\ Diffed(last) =>
       Called("anyListener") = IF last.diffs # <<>> THEN anyListeners ELSE <<>>

\* C9: whichever path produced a ChangeBatch, the listeners of each key in it
\* are called once each, with the value the key has once the batch is
\* applied, and the listeners of no other key are called.
C9_KeyListenerOncePerBatch ==
  Diffed(last) =>
    \A k \in Keys :
      LET told == SelectSeq(calls, LAMBDA c : c.kind = "listener" /\ c.key = k)
      IN /\ [i \in DOMAIN told |-> told[i].fn] =
              IF k \in Range(last.diffs) THEN ListenersOf(k) ELSE <<>>
         /\ \A i \in DOMAIN told : told[i].data = get(This, k, Undefined)

\* C10: where the constructor found no chrome.storage.local, the instance it
\* returns holds the default map.
C10_DefaultsWhenUnreachable ==
  (~chrome /\ last.op = "constructor") =>
    /\ View(This) = defaultConfig
    /\ get(This, "vodDownload", Undefined) = False
    /\ get(This, "clipDownload", Undefined) = True

\* the objects code outside the store holds a reference to: the exported
\* defaultConfig, the object a caller passed to load(), and the object
\* syncConfig stores in window.chzzkExt.config
ExternalRefs == {"defaultConfig", "loaded", "windowConfig"}

\* C11: this.config never refers to an object that code outside the store
\* can reach, so neither side's writes show on the other; the module-level
\* defaultConfig keeps its contents {vodDownload: false, clipDownload: true};
\* and no accessor returns the store's own map object.
C11_MapIsOwned ==
  /\ config \notin ExternalRefs
  /\ heap["defaultConfig"] = defaultConfig
  /\ last.op = "loadAsT" => last.ret \notin DOMAIN heap

\* the map after set("vodDownload", true) on the default map, and the
\* snapshot that then arrives
LocallySet == [vodDownload |-> True, clipDownload |-> True]
Arriving == [vodDownload |-> True, clipDownload |-> False]

\* C12: when the snapshot {vodDownload: true, clipDownload: false} reaches,
\* by onChanged or by a tick of either polling loop, a store whose default
\* map has had set("vodDownload", true), the diff is exactly <<clipDownload>>
\* and the map afterwards is the snapshot; on every cycle a key whose local
\* value is the snapshot's value is not in the diff.
C12_EndToEnd ==
  [][Diffed(last') =>
       /\ (View(This) = LocallySet /\ Received(last') = Arriving) =>
            /\ last'.diffs = <<"clipDownload">>
            /\ config' # Null
            /\ heap'[config'] = Arriving
       /\ \A k \in Keys :
            Prop(View(This), k) = Prop(Received(last'), k)
              => k \notin Range(last'.diffs)]_vars

\* both paths have run that cycle: a call made before the map was replaced
\* saw the locally set map
C12_Witness ==
  /\ Diffed(last)
  /\ Received(last) = Arriving
  /\ last.diffs = <<"clipDownload">>
  /\ View(This) = Arriving
  /\ \E i \in DOMAIN calls : calls[i].view = LocallySet

\* the registered pairs whose predicate holds on `changes`
Holding(changes) ==
  SelectSeq(conditionListeners, LAMBDA p : ConditionHolds(p[1], changes))

\* C13: a tick of either polling loop whose diff B is not empty has, when it
\* returns, evaluated the predicate of every registered pair once, in
\* order, on B; called the callback of exactly the pairs whose predicate
\* holds on B; replaced the map, so that get(k) is the snapshot's value for
\* every key; called every any-listener once per registration; and, last of
\* all and with the new map in place, made one call of main
\* (syncConfigBackground) or one dispatchEvent (syncConfig).
C13_TickAppliesBatch ==
  (last.op = "resume" /\ ~last.raised /\ last.diffs # <<>>) =>
    /\ Called("condition") =
         [i \in DOMAIN conditionListeners |-> conditionListeners[i][1]]
    /\ \A i \in DOMAIN CallsOf("condition") :
         CallsOf("condition")[i].changes = last.diffs
    /\ Called("conditionListener") =
         [i \in DOMAIN Holding(last.diffs) |-> Holding(last.diffs)[i][2]]
    /\ \A k \in Keys : get(This, k, Undefined) = Prop(last.cfg, k)
    /\ View(This) = last.cfg
    /\ Called("anyListener") = anyListeners
    /\ CallsOf("listener") = <<>>
    /\ LET done == IF last.timer = "syncConfigBackground"
                     THEN "main" ELSE "dispatchEvent"
       IN /\ Len(CallsOf("main")) + Len(CallsOf("dispatchEvent")) = 1
          /\ calls[Len(calls)].kind = done
          /\ calls[Len(calls)].view = last.cfg

\* a tick of syncConfigBackground with any-listeners registered, one
\* predicate that held and one that did not
C13_Witness ==
  /\ last.op = "resume" /\ last.timer = "syncConfigBackground"
  /\ ~last.raised /\ last.diffs # <<>>
  /\ anyListeners # <<>>
  /\ CallsOf("conditionListener") # <<>>
  /\ Len(CallsOf("conditionListener")) < Len(CallsOf("condition"))

\* C14: removeConditionListener(p, f) leaves registered, in their order,
\* exactly the pairs that are not (p, f): a pair that shares only the
\* predicate or only the callback stays.
C14_RemovesExactlyThePair ==
  [][last'.op = "removeConditionListener" =>
       conditionListeners' =
         SelectSeq(conditionListeners,
                   LAMBDA p : p # <<last'.condition, last'.listener>>)]_vars

\* C15: a tick whose fetch is rejected, or whose body does not parse, leaves
\* this.config and its object as they were, calls nothing and leaves its
\* interval running; the next tick of that interval sends a fetch for what
\* the endpoint then holds, and a resumed tick whose snapshot differs from
\* the map applies it.
C15_FailedFetchSkipsCycle ==
  [][/\ last'.op = "fetchFail" =>
          /\ config' = config
          /\ heap' = heap
          /\ listeners' = listeners
          /\ anyListeners' = anyListeners
          /\ conditionListeners' = conditionListeners
          /\ calls' = <<>>
          /\ timers' = timers
          /\ last'.timer \in timers'
     /\ (last.op = "fetchFail" /\ last'.op = "tick") =>
          /\ Len(inflight') = Len(inflight) + 1
          /\ inflight'[Len(inflight')] = [timer |-> last'.timer, body |-> remote]
     /\ (last'.op = "resume" /\ ~last'.raised /\ last'.diffs # <<>>) =>
          /\ config' # Null
          /\ heap'[config'] = last'.cfg]_vars

\* a failed fetch with listeners registered, while the endpoint holds a map
\* other than the local one, so that the next tick has something to apply
C15_Witness ==
  /\ last.op = "fetchFail"
  /\ last.timer \in timers
  /\ anyListeners # <<>>
  /\ conditionListeners # <<>>
  /\ remote # View(This)
  /\ calls = <<>>

\* the answers the endpoint gives while polling is watched
Answers ==
  {defaultConfig, [vodDownload |-> True, clipDownload |-> False],
   [vodDownload |-> True]}

\* Polled synchronisation alone: a context without chrome.storage in which
\* listeners have been added and syncConfig() or syncConfigBackground(main)
\* has been called.  The interval fires again and again; the fetch at the
\* head of those in flight settles, one way or the other.
InitLive ==
  \E t \in {"syncConfig", "syncConfigBackground"} :
    /\ chrome = FALSE
    /\ seedPending = FALSE
    /\ config = "initial"
    /\ heap = [r \in {"initial", "defaultConfig"} |->
                 IF r = "initial" THEN EmptyObject ELSE defaultConfig]
    /\ listeners = [clipDownload |-> <<"onKeyA">>]
    /\ anyListeners = <<"onAnyA">>
    /\ conditionListeners = << <<"clipChanged", "onCondA">> >>
    /\ timers = {t}
    /\ remote = defaultConfig
    /\ inflight = <<>>
    /\ calls = <<>>
    /\ last = [op |-> t]

\* the fetch at position i settles: its await (config.ts:150, 171) returns
\* or throws, by Resume(i) or by FetchFail(i)
Settles(i) == i \in DOMAIN inflight /\ inflight' = Without(inflight, i)

NextLive ==
  \/ Set("vodDownload", True)
  \/ \E t \in {"syncConfig", "syncConfigBackground"} : Tick(t)
  \/ \E i \in 1..MaxInflight : Resume(i)
  \/ \E i \in 1..MaxInflight : FetchFail(i)
  \/ \E cfg \in Answers : RemoteChange(cfg)

SpecLive ==
  /\ InitLive
  /\ [][NextLive]_vars
  /\ WF_vars(\E t \in {"syncConfig", "syncConfigBackground"} : Tick(t))
  /\ WF_inflight(Settles(1))

\* a step that is neither a change of the endpoint's answer nor a local
\* write
Settled == remote' = remote /\ last'.op \notin {"set", "load", "remoteChange"}

\* C16: with an interval running, if from some point on the endpoint's
\* answer does not change and nothing is written locally, and fetches
\* succeed again and again, then from some point on the local map is the
\* endpoint's answer and no step calls a listener.
C16_PolledSyncConverges ==
  (<>[][Settled]_vars /\ []<><<last'.op = "resume">>_vars)
    => /\ <>[](View(This) = remote)
       /\ <>[][calls' = <<>>]_vars

\* a tick has brought the local map to an answer the endpoint changed to,
\* with listeners called on the way
C16_Witness ==
  /\ last.op = "resume"
  /\ last.diffs # <<>>
  /\ remote # defaultConfig
  /\ View(This) = remote
  /\ calls # <<>>
  /\ inflight = <<>>

\* C17: a per-key listener called with (K, newValue), by set or by the
\* onChanged handler, is called with the store already holding that value:
\* a get(K) made inside it returns newValue, and within an onChanged
\* notification a get of any key of the diff returns the key's value in the
\* new snapshot.
C17_ListenerSeesNewValue ==
  \A i \in DOMAIN calls :
    calls[i].kind = "listener" =>
      /\ Prop(calls[i].view, calls[i].key) = calls[i].data
      /\ last.op = "onChanged" =>
           \A k \in Range(last.diffs) :
             Prop(calls[i].view, k) = Prop(Received(last), k)

\* the handler of label l installed the snapshot it fetched
Installed(l) == l.op = "resume" /\ ~l.raised /\ l.diffs # <<>>

\* C18: the polling loops install the fetched snapshots in the order their
\* ticks requested them.  For two installations that follow one another:
\* when the first was of a fetch that was not the oldest in flight, the
\* second is not of the oldest in flight, which an earlier tick had sent.
C18_AppliedInRequestOrder ==
  [][(/\ Installed(last) /\ ~last.oldest
      /\ Installed(last')
      /\ \A j \in 2..Len(inflight) : inflight[j] # inflight[1])
     => inflight' # Without(inflight, 1)]_vars

\* C19: a set(k, v) made while the constructor's loadFromStorage is pending
\* is still read by get(k) once loadFromStorage has resolved; and while it
\* is pending and nothing has been set or loaded, get(k, d) returns d.
C19_WriteSurvivesSeed ==
  [][/\ (seedPending /\ last.op = "set" /\ ~last.raised
           /\ last'.op = "loadFromStorage") =>
          /\ config' # Null
          /\ Prop(heap'[config'], last.key) = last.value
     /\ (seedPending /\ config = "initial" /\ heap[config] = EmptyObject
           /\ last'.op = "get") =>
          last'.ret = last'.defaultValue]_vars

\* Notification of listeners that subscribe and unsubscribe while they are
\* being notified: one key, written by set("vodDownload", true).  A set
\* whose listeners would subscribe past MaxListeners is left out.
NextReentrant ==
  \/ /\ Registered(set(This, "vodDownload", True)) <= MaxListeners
     /\ Set("vodDownload", True)
  \/ \E listener \in Listeners \cup ReentrantListeners :
       AddListener("vodDownload", listener)
  \/ \E listener \in Listeners : RemoveListener("vodDownload", listener)
  \/ \E listener \in AnyListeners \cup ReentrantAnyListeners :
       AddAnyListener(listener)
  \/ \E listener \in AnyListeners : RemoveAnyListener(listener)

SpecReentrant == Constructed(FALSE) /\ remote = defaultConfig /\ [][NextReentrant]_vars

\* how many elements of seq satisfy Test
Count(seq, Test(_)) == Len(SelectSeq(seq, Test))

\* no call of `fn` in role `kind` comes after a call of `remover`
NotCalledAfter(cs, kind, remover, fn) ==
  \A i, j \in DOMAIN cs :
    (i < j /\ cs[i].kind = kind /\ cs[i].fn = remover)
      => ~(cs[j].kind = kind /\ cs[j].fn = fn)

\* C20: once removeListener(k, f) or removeAnyListener(f) has returned, f is
\* not called again (for k) until it is added again: not by the next set,
\* whatever number of times f was registered, and not by a notification in
\* progress one of whose listeners made the removal; and a listener added
\* while a notification is in progress is not called by that notification.
C20_UnsubscribeIsImmediate ==
  [][/\ (last'.op = "removeListener" /\ last'.key \in DOMAIN listeners') =>
          last'.listener \notin Range(listeners'[last'.key])
     /\ last'.op = "removeAnyListener" =>
          last'.listener \notin Range(anyListeners')
     /\ (last'.op = "set" /\ ~last'.raised) =>
          /\ \A c \in Range(calls') :
               /\ c.kind = "listener" => c.fn \in Range(ListenersOf(c.key))
               /\ c.kind = "anyListener" => c.fn \in Range(anyListeners)
          /\ NotCalledAfter(calls', "listener", "unsubscribeA", "onKeyA")
          /\ NotCalledAfter(calls', "anyListener", "unsubscribeAnyA", "onAnyA")
          /\ Count(calls', LAMBDA c : c.kind = "listener" /\ c.fn = "onKeyB")
               <= Count(ListenersOf(last'.key), LAMBDA l : l = "onKeyB")
          /\ Count(calls', LAMBDA c : c.kind = "anyListener" /\ c.fn = "onAnyB")
               <= Count(anyListeners, LAMBDA l : l = "onAnyB")]_vars

====
